---- MODULE Spec2Model ----
(***************************************************************************)
(* State-machine model of the two webcam servers of this repository:       *)
(*   src/webcam_server-2.py  stream mode   (M-JPEG over HTTP, threads)     *)
(*   src/webcam_server.py    snapshot mode (capture on keypress, asyncio   *)
(*                                          WebSocket notification)        *)
(* One process runs one of the two scripts; `mode` says which.             *)
(***************************************************************************)
EXTENDS Integers, Sequences, FiniteSets, TLC

\* ---------------------------------------------------------------- bounds
\* Loop iterations of one stream handler whose output is recorded in wfile.
MaxFrames == 2
\* KeyboardInterrupts the operator sends to the process.
MaxInterrupts == 1

\* Capture triggers ('s' key presses) the operator makes.
MaxTriggers == 2
\* Frames of the snapshot loop that are numbered (later frames share the last number).
MaxSnapFrames == 2

\* HTTP clients of the stream server (one connection each).
Clients == {"c1", "c2"}
\* Byte lengths cv2.imencode may produce for a frame.
EncSizes == {9, 10}
\* WebSocket connections (websocket objects) of the snapshot server.
Conns == {"w1", "w2"}
\* Keys cv2.waitKey(1) & 0xFF may give: 'q', ESC (27), 's', 'f', another key,
\* or none (255).
Keys == {"q", "esc", "s", "f", "x", "none"}
\* Request paths a client may ask for.
Paths == {"/video_feed", "/index-2.html"}

\* ------------------------------------------------------------- variables
VARIABLES
    mode,          \* "stream" | "snapshot": which script this process runs
    pc,            \* position of the main thread (run_server / main+webcam_loop)
    dev,           \* environment: dev[i] = device index i can be opened
    root,          \* environment: state of HTTP_ROOT_DIR ("ok","missing","denied")
    portFree,      \* environment: the server address can be bound
    capIndex,      \* device index the current cap object is bound to (-1: none)
    capOpened,     \* cap.isOpened()
    openAttempts,  \* sequence of device indices cv2.VideoCapture was called with
    releaseCount,  \* number of cap.release() calls
    lateRead,      \* some cap.read() call was made after cap.release()
    interrupts,    \* KeyboardInterrupts delivered so far
    raised,        \* exception that left the main function ("none" if none)
    listening,     \* server sockets currently listening
    everBound,     \* server sockets bound at any time
    opened,        \* the device-open check has passed (cap.isOpened() was true)
    hpc,           \* stream mode: position of the handler thread of client c
    wfile,         \* stream mode: tokens written to client c (first MaxFrames iterations)
    iters,         \* stream mode: recorded loop iterations (successful reads) of c
    encFails,      \* stream mode: recorded encode failures of c
    spin,          \* stream mode: parity of the unrecorded loop iterations of c
    wsFree,        \* environment: the WebSocket address can be bound
    httpThread,    \* snapshot mode: state of the start_http_server thread
    connected_clients, \* snapshot mode: the module-level set
    hs,            \* snapshot mode: state of handle_client for connection w
    conn,          \* snapshot mode: connection w: "none", "open", "closed", or
                   \*   "reclosed" (closed and signalled closed again)
    removeCalls,   \* snapshot mode: connected_clients.remove(w) calls made
    keyErrors,     \* snapshot mode: remove() calls that raised KeyError
    key,           \* snapshot mode: the local `key` of webcam_loop ("unset" before
                   \*   the first poll and once webcam_loop has been left)
    fullscreen,    \* snapshot mode: the local fullscreen flag (FALSE before line 90
                   \*   and once webcam_loop has been left)
    frameNo,       \* snapshot mode: number of the frame read last (0: none)
    file,          \* snapshot mode: frame stored at LATEST_IMAGE_FILENAME (0: no file)
    triggers,      \* snapshot mode: capture triggers handled so far
    loopExit,      \* snapshot mode: how the while loop of webcam_loop was left:
                   \*   "none" (not left), "read_failed" (line 97), "quit" (line 108)
    clock,         \* snapshot mode: datetime.now() readings taken so far
    coros,         \* snapshot mode: send coroutines of the current/last broadcast:
                   \*   member enumerated -> message it is to send
    task,          \* snapshot mode: state of the send task of w in that broadcast
    sendLog        \* snapshot mode: messages passed to w.send() in that broadcast

streamVars == <<hpc, wfile, iters, encFails, spin>>
capVars == <<capIndex, capOpened, openAttempts, releaseCount, lateRead, opened>>
envVars == <<dev, root, portFree, wsFree>>
wsVars == <<connected_clients, hs, conn, removeCalls, keyErrors>>
loopVars == <<key, fullscreen, frameNo, file, triggers, loopExit>>
bcastVars == <<clock, coros, task, sendLog>>
snapVars == <<httpThread, wsVars, loopVars, bcastVars>>
sockVars == <<listening, everBound>>
vars == <<mode, pc, dev, root, portFree, capIndex, capOpened, openAttempts,
          releaseCount, lateRead, interrupts, raised, listening,
          everBound, opened, hpc, wfile, iters, encFails, spin,
          wsFree, httpThread, connected_clients, hs, conn, removeCalls,
          keyErrors, key, fullscreen, frameNo, file, triggers, loopExit, clock,
          coros, task, sendLog>>

\* ------------------------------------------------------------ pure parts

\* str(n) for n >= 0: the decimal digits of n, most significant first.
RECURSIVE Str(_)
Str(n) == IF n < 10 THEN <<n>> ELSE Append(Str(n \div 10), n % 10)

\* int(s) for a digit sequence s (what a client does with Content-Length).
RECURSIVE ParseInt(_)
ParseInt(s) == IF s = <<>> THEN 0
               ELSE 10 * ParseInt(SubSeq(s, 1, Len(s) - 1)) + s[Len(s)]

\* A token written to the response: kind and value (digits or byte count).
Tok(k, v) == [k |-> k, v |-> v]

\* numpy buffer returned by cv2.imencode: n elements of itemsize bytes (uint8).
Buffer(n) == [n |-> n, itemsize |-> 1]
\* len(buffer)
BufLen(b) == b.n
\* buffer.tobytes(): its byte count
ToBytes(b) == b.n * b.itemsize

\* send_response(200) + send_header x2 + end_headers: one flushed header block.
ResponseHead == << Tok("status200", <<>>),
                   Tok("Access-Control-Allow-Origin:*", <<>>),
                   Tok("Content-type:multipart/x-mixed-replace", <<>>),
                   Tok("blank", <<>>) >>

ContentLengthMut(b) == Str(BufLen(b) + 2)
\* str(len(buffer)) of line 50
ContentLength(b) == Str(BufLen(b))

PartWritesMut(b) ==
    << << Tok("Content-Type:image/jpeg", <<>>),
          Tok("Content-Length", ContentLength(b)),
          Tok("blank", <<>>) >>,
       << Tok("boundary", <<>>) >>,
       << Tok("data", <<ToBytes(b)>>) >>,
       << Tok("crlf", <<>>) >> >>
\* The four writes of one part (lines 48-55), in order; each is a token sequence.
PartWrites(b) ==
    << << Tok("boundary", <<>>) >>,
       << Tok("Content-Type:image/jpeg", <<>>),
          Tok("Content-Length", ContentLength(b)),
          Tok("blank", <<>>) >>,
       << Tok("data", <<ToBytes(b)>>) >>,
       << Tok("crlf", <<>>) >> >>

RECURSIVE Flatten(_)
Flatten(ss) == IF ss = <<>> THEN <<>> ELSE Head(ss) \o Flatten(Tail(ss))

\* The tokens of the first k writes of a part.
PartPrefix(b, k) == Flatten(SubSeq(PartWrites(b), 1, k))

\* ------------------------------------------------- stream mode: run_server

VideoCaptureMut(i) ==
    /\ openAttempts' = Append(openAttempts, i)
    /\ capIndex' = 0
    /\ capOpened' = dev[i]
    /\ opened' = dev[i]
\* cv2.VideoCapture(i): a new capture object bound to index i, open iff the
\* device can be opened.
VideoCapture(i) ==
    /\ openAttempts' = Append(openAttempts, i)
    /\ capIndex' = i
    /\ capOpened' = dev[i]
    /\ opened' = dev[i]

\* Active (not yet returned) request handler threads.
Streaming(c) == hpc[c] \in {"begin", "read", "static"}

\* line 84: cap = cv2.VideoCapture(0); line 85 decides whether line 86 runs.
run_server_open0 ==
    /\ mode = "stream" /\ pc = "open0"
    /\ VideoCapture(0)
    /\ pc' = IF dev[0] THEN "chdir" ELSE "open1"
    /\ UNCHANGED <<mode, snapVars, envVars, releaseCount, lateRead, interrupts, raised,
                   sockVars, streamVars>>

\* line 86: cap = cv2.VideoCapture(1); lines 88-90: return if still not open.
run_server_open1 ==
    /\ mode = "stream" /\ pc = "open1"
    /\ VideoCapture(1)
    /\ pc' = IF dev[1] THEN "chdir" ELSE "done"
    /\ UNCHANGED <<mode, snapVars, envVars, releaseCount, lateRead, interrupts, raised,
                   sockVars, streamVars>>

\* cap.release(): the device is closed; counted.
Release ==
    /\ releaseCount' = releaseCount + 1
    /\ capOpened' = FALSE

OnRootMissingMut == "bind"
\* line 104: `return` in the except FileNotFoundError clause: run_server ends.
OnRootMissing == "done"

\* lines 97-104: os.chdir(HTTP_ROOT_DIR); only FileNotFoundError is handled
\* (release and return); any other OSError leaves run_server uncaught.
run_server_chdir ==
    /\ mode = "stream" /\ pc = "chdir"
    /\ CASE root = "ok"      -> /\ pc' = "bind"
                                /\ UNCHANGED <<capVars, raised>>
         [] root = "missing" -> /\ Release
                                /\ pc' = OnRootMissing
                                /\ UNCHANGED <<capIndex, openAttempts, lateRead,
                                               opened, raised>>
         [] OTHER            -> /\ pc' = "done"
                                /\ raised' = "OSError"
                                /\ UNCHANGED capVars
    /\ UNCHANGED <<mode, snapVars, envVars, interrupts, sockVars, streamVars>>

\* line 117: ThreadedHTTPServer(...) binds and listens; a bind failure raises
\* OSError before the try of line 119 is entered.
run_server_bind ==
    /\ mode = "stream" /\ pc = "bind"
    /\ IF portFree
       THEN /\ listening' = listening \cup {"http"}
            /\ everBound' = everBound \cup {"http"}
            /\ pc' = "serve"
            /\ UNCHANGED raised
       ELSE /\ pc' = "done"
            /\ raised' = "OSError"
            /\ UNCHANGED <<listening, everBound>>
    /\ UNCHANGED <<mode, snapVars, envVars, capVars, interrupts, streamVars>>

\* line 120: serve_forever() fails with an exception other than
\* KeyboardInterrupt: the finally of lines 123-126 runs, then it propagates.
run_server_serve_error ==
    /\ mode = "stream" /\ pc = "serve"
    /\ raised = "none"
    /\ pc' = "server_close"
    /\ raised' = "OSError"
    /\ UNCHANGED <<mode, snapVars, envVars, capVars, interrupts, sockVars, streamVars>>

\* line 124, first half: httpd.server_close() closes the listening socket.
run_server_server_close ==
    /\ mode = "stream" /\ pc = "server_close"
    /\ listening' = listening \ {"http"}
    /\ pc' = "join"
    /\ UNCHANGED <<mode, snapVars, envVars, capVars, interrupts, raised, everBound,
                   streamVars>>

JoinReadyMut == TRUE
\* ThreadingMixIn (line 76) with daemon_threads = False: server_close() joins
\* every handler thread before it returns.
JoinReady == \A c \in Clients : ~Streaming(c)

\* line 124, second half: server_close() returns once the handler threads ended.
run_server_join ==
    /\ mode = "stream" /\ pc = "join"
    /\ JoinReady
    /\ pc' = "release"
    /\ UNCHANGED <<mode, snapVars, envVars, capVars, interrupts, raised, sockVars, streamVars>>

\* line 125: cap.release(); line 126; run_server returns.
run_server_release ==
    /\ mode = "stream" /\ pc = "release"
    /\ Release
    /\ pc' = "done"
    /\ UNCHANGED <<mode, snapVars, envVars, capIndex, openAttempts, lateRead, opened,
                   interrupts, raised, sockVars, streamVars>>

\* A KeyboardInterrupt in the main thread of run_server.  Only serve_forever
\* (line 120) is inside the try that catches it; elsewhere, and inside the
\* finally block itself, it leaves run_server at once.
run_server_interrupt ==
    /\ mode = "stream" /\ pc \notin {"done", "exited"}
    /\ interrupts < MaxInterrupts
    /\ interrupts' = interrupts + 1
    /\ IF pc = "serve"
       THEN pc' = "server_close" /\ UNCHANGED raised
       ELSE pc' = "done" /\ raised' = "KeyboardInterrupt"
    /\ UNCHANGED <<mode, snapVars, envVars, capVars, sockVars, streamVars>>

\* ------------------------------------- stream mode: CustomRequestHandler

\* serve_forever (line 120) accepts a connection and starts a handler thread;
\* do_GET (lines 64-71) dispatches on the path.
do_GET(c) ==
    /\ mode = "stream" /\ pc = "serve"
    /\ "http" \in listening
    /\ hpc[c] = "idle"
    /\ \E path \in Paths :
          hpc' = [hpc EXCEPT ![c] = IF path = "/video_feed" THEN "begin" ELSE "static"]
    /\ UNCHANGED <<mode, snapVars, pc, envVars, capVars, interrupts, raised, sockVars,
                   wfile, iters, encFails, spin>>

\* line 71: super().do_GET() serves a static file and the handler returns.
static_file(c) ==
    /\ hpc[c] = "static"
    /\ hpc' = [hpc EXCEPT ![c] = "done_static"]
    /\ wfile' = [wfile EXCEPT ![c] = <<Tok("static", <<>>)>>]
    /\ UNCHANGED <<mode, snapVars, pc, envVars, capVars, interrupts, raised, sockVars,
                   iters, encFails, spin>>

\* lines 26-32: status line and response headers, flushed by end_headers().
\* They are written before the try of line 36: if the peer is gone already the
\* write raises and the handler ends with that error.
stream_video_feed_begin(c) ==
    /\ hpc[c] = "begin"
    /\ \/ /\ wfile' = [wfile EXCEPT ![c] = @ \o ResponseHead]
          /\ hpc' = [hpc EXCEPT ![c] = "read"]
       \/ /\ hpc' = [hpc EXCEPT ![c] = "done_error"]
          /\ UNCHANGED wfile
    /\ UNCHANGED <<mode, snapVars, pc, envVars, capVars, interrupts, raised, sockVars,
                   iters, encFails, spin>>

\* What the loop does on a failed encode (line 45): "read" = continue.
OnEncodeFailMut == "done_break"
OnEncodeFail == "read"

\* What `except Exception: pass` (lines 59-62) does to the shared capture:
\* nothing.  cap is the capture's state, [released, opened], before the
\* clause; the result is its state after it.
ExceptPassMut(cap) == [released |-> cap.released + 1, opened |-> FALSE]
ExceptPass(cap) == cap

\* lines 37-57, one iteration of the loop:
\*   cap.read(), break if not ret (a released capture reads ret = False);
\*   cv2.imencode, continue if not ret;
\*   the four writes of one part, then time.sleep(FRAME_DELAY).
\* With the peer gone (it disconnected, or the network failed) a write raises
\* after k of the four; lines 59-62 swallow the exception and the handler
\* returns.  Only the first MaxFrames iterations
\* of a handler are recorded in iters, encFails and wfile; every later one
\* flips spin[c].
stream_video_feed_iteration(c) ==
    /\ hpc[c] = "read"
    /\ lateRead' = (lateRead \/ releaseCount > 0)
    /\ LET recorded == iters[c] < MaxFrames
       IN  \/ \* line 39: not ret
              /\ hpc' = [hpc EXCEPT ![c] = "done_break"]
              /\ UNCHANGED <<iters, encFails, wfile, releaseCount, capOpened, spin>>
           \/ \* line 45: the encode failed
              /\ capOpened
              /\ iters' = [iters EXCEPT ![c] = IF recorded THEN @ + 1 ELSE @]
              /\ encFails' = [encFails EXCEPT ![c] = IF recorded THEN @ + 1 ELSE @]
              /\ hpc' = [hpc EXCEPT ![c] = OnEncodeFail]
              /\ spin' = [spin EXCEPT ![c] = IF recorded THEN @ ELSE ~@]
              /\ UNCHANGED <<wfile, releaseCount, capOpened>>
           \/ \* lines 48-57: the part is written
              /\ capOpened
              /\ iters' = [iters EXCEPT ![c] = IF recorded THEN @ + 1 ELSE @]
              /\ \E n \in EncSizes :
                    wfile' = [wfile EXCEPT ![c] =
                                IF recorded THEN @ \o PartPrefix(Buffer(n), 4) ELSE @]
              /\ hpc' = [hpc EXCEPT ![c] = "read"]
              /\ spin' = [spin EXCEPT ![c] = IF recorded THEN @ ELSE ~@]
              /\ UNCHANGED <<encFails, releaseCount, capOpened>>
           \/ \* lines 59-62: a write raised
              /\ capOpened
              /\ iters' = [iters EXCEPT ![c] = IF recorded THEN @ + 1 ELSE @]
              /\ \E n \in EncSizes, k \in 0..3 :
                    wfile' = [wfile EXCEPT ![c] =
                                IF recorded THEN @ \o PartPrefix(Buffer(n), k) ELSE @]
              /\ hpc' = [hpc EXCEPT ![c] = "done_except"]
              /\ LET cap == ExceptPass([released |-> releaseCount,
                                         opened |-> capOpened])
                 IN  /\ releaseCount' = cap.released
                     /\ capOpened' = cap.opened
              /\ UNCHANGED <<encFails, spin>>
    /\ UNCHANGED <<mode, snapVars, pc, envVars, capIndex, openAttempts, opened, interrupts,
                   raised, sockVars>>

\* ------------------------------------------------ snapshot mode: main

\* The asyncio event loop runs other tasks (connection handlers, send tasks)
\* only while the main coroutine is suspended in an await: asyncio.gather
\* (line 40), asyncio.sleep (line 129), or the exit of `async with` (line 145).
LoopIdle == mode = "snapshot" /\ pc \in {"gather", "sleep", "ws_wait"}

\* lines 141-142: the daemon thread of start_http_server is started.
main_start_http ==
    /\ mode = "snapshot" /\ pc = "start_http"
    /\ httpThread' = "bind"
    /\ pc' = "ws_serve"
    /\ UNCHANGED <<mode, streamVars, envVars, capVars, interrupts, raised, sockVars,
                   wsVars, loopVars, bcastVars>>

\* lines 53-56: the thread binds HTTP_PORT and serves; a bind failure ends
\* the thread only.
start_http_server ==
    /\ mode = "snapshot" /\ httpThread = "bind"
    /\ pc # "exited"
    /\ IF portFree
       THEN /\ httpThread' = "serving"
            /\ listening' = listening \cup {"http"}
            /\ everBound' = everBound \cup {"http"}
       ELSE /\ httpThread' = "failed"
            /\ UNCHANGED <<listening, everBound>>
    /\ UNCHANGED <<mode, pc, streamVars, envVars, capVars, interrupts, raised,
                   wsVars, loopVars, bcastVars>>

\* line 145: entering `async with websockets.serve(...)` binds WS_PORT; a bind
\* failure raises out of main.
main_ws_serve ==
    /\ mode = "snapshot" /\ pc = "ws_serve"
    /\ IF wsFree
       THEN /\ listening' = listening \cup {"ws"}
            /\ everBound' = everBound \cup {"ws"}
            /\ pc' = "open0"
            /\ UNCHANGED raised
       ELSE /\ pc' = "done"
            /\ raised' = "OSError"
            /\ UNCHANGED <<listening, everBound>>
    /\ UNCHANGED <<mode, streamVars, envVars, capVars, interrupts, httpThread,
                   wsVars, loopVars, bcastVars>>

\* line 62: cap = cv2.VideoCapture(0); line 64 decides whether line 66 runs.
webcam_loop_open0 ==
    /\ mode = "snapshot" /\ pc = "open0"
    /\ VideoCapture(0)
    /\ pc' = IF dev[0] THEN "loop" ELSE "open1"
    /\ UNCHANGED <<mode, streamVars, envVars, releaseCount, lateRead, interrupts,
                   raised, sockVars, snapVars>>

\* line 66: cap = cv2.VideoCapture(1); lines 68-70: return if still not open,
\* which leaves the `async with` of line 145.
webcam_loop_open1 ==
    /\ mode = "snapshot" /\ pc = "open1"
    /\ VideoCapture(1)
    /\ pc' = IF dev[1] THEN "loop" ELSE "ws_close"
    /\ UNCHANGED <<mode, streamVars, envVars, releaseCount, lateRead, interrupts,
                   raised, sockVars, snapVars>>

\* json.dumps of lines 34-38: the message, with the clock reading taken.
Message(now) == [type |-> "new_image_ready",
                 filename |-> "captured_latest.jpg",
                 timestamp |-> now]

SendArgsMut(members, now) ==
    [w \in members |-> Message(now + (IF w = "w1" THEN 0 ELSE 1))]
\* line 41: [client.send(message) for client in connected_clients]: the
\* message each enumerated member's send coroutine is created with.
SendArgs(members, now) == [w \in members |-> Message(now)]

GatherTasksMut(members) == [w \in Conns |-> "pending"]
\* lines 40-41: asyncio.gather wraps each coroutine of the list built from
\* connected_clients in a task; no other connection gets one.
GatherTasks(members) == [w \in Conns |-> IF w \in members THEN "pending" ELSE "none"]

\* line 33: `if connected_clients:`
BroadcastGuard(members) == members # {}

DispatchMut(k) ==
    IF k \in {"q", "esc"} THEN "quit"
    ELSE IF k \in {"s", "x"} THEN "capture"
    ELSE IF k = "f" THEN "fullscreen"
    ELSE "none"
\* lines 107, 110, 120: the branch of the if/elif chain taken for key k.
Dispatch(k) ==
    IF k \in {"q", "esc"} THEN "quit"
    ELSE IF k = "s" THEN "capture"
    ELSE IF k = "f" THEN "fullscreen"
    ELSE "none"

\* webcam_loop returns or is unwound by an exception: its locals are gone.
LocalsDropped == key' = "unset" /\ fullscreen' = FALSE

OnReadFailMut == "sleep"
\* lines 95-97 and 131-133: where a failed read takes webcam_loop: `break`,
\* out of the loop and, after the release, out of the `async with` of main.
OnReadFail == "ws_close"

\* lines 92-129, the part of one iteration that runs without an await:
\*   cap.read(), break if not ret; the preview; cv2.waitKey;
\*   q/ESC: break; s: cv2.imwrite (its result is ignored), then
\*   send_notification_to_clients up to its await; f: toggle fullscreen.
\* A break runs lines 131-133 and returns to main, leaving the `async with`.
webcam_loop_iteration ==
    /\ mode = "snapshot" /\ pc \in {"loop", "sleep"}
    /\ lateRead' = (lateRead \/ releaseCount > 0)
    /\ \/ \* lines 95-97: the read failed
          /\ Release
          /\ pc' = OnReadFail
          /\ loopExit' = "read_failed"
          /\ LocalsDropped
          /\ UNCHANGED <<frameNo, file, triggers, bcastVars>>
       \/ \* lines 99-105: a frame was read and shown, a key is polled
          /\ capOpened
          /\ frameNo' = IF frameNo < MaxSnapFrames THEN frameNo + 1 ELSE frameNo
          /\ \E k \in Keys :
                CASE Dispatch(k) = "quit" ->
                          /\ Release
                          /\ pc' = "ws_close"
                          /\ loopExit' = "quit"
                          /\ LocalsDropped
                          /\ UNCHANGED <<file, triggers, bcastVars>>
                     [] Dispatch(k) = "capture" ->
                          /\ key' = k
                          /\ triggers < MaxTriggers
                          /\ triggers' = triggers + 1
                          /\ \E imwriteOk \in BOOLEAN :
                                file' = IF imwriteOk THEN frameNo' ELSE file
                          /\ IF BroadcastGuard(connected_clients)
                             THEN /\ clock' = clock + 1
                                  /\ coros' = SendArgs(connected_clients, clock)
                                  /\ task' = GatherTasks(connected_clients)
                                  /\ sendLog' = [w \in Conns |-> <<>>]
                                  /\ pc' = "gather"
                             ELSE /\ pc' = "sleep"
                                  /\ UNCHANGED bcastVars
                          /\ UNCHANGED <<fullscreen, loopExit, releaseCount, capOpened>>
                     [] Dispatch(k) = "fullscreen" ->
                          /\ key' = k
                          /\ fullscreen' = ~fullscreen
                          /\ pc' = "sleep"
                          /\ UNCHANGED <<file, triggers, loopExit, bcastVars,
                                         releaseCount, capOpened>>
                     [] OTHER ->
                          /\ key' = k
                          /\ pc' = "sleep"
                          /\ UNCHANGED <<fullscreen, file, triggers, loopExit, bcastVars,
                                         releaseCount, capOpened>>
    /\ UNCHANGED <<mode, streamVars, envVars, capIndex, openAttempts, opened,
                   interrupts, raised, sockVars, httpThread, wsVars>>

\* ------------------------- snapshot mode: send_notification_to_clients

\* One send task of the gather (line 41) runs client.send(message): the
\* message is delivered, or the send waits for the peer to drain, or it raises
\* ConnectionClosed because the connection is closed.
send_task(w) ==
    /\ pc = "gather" /\ task[w] = "pending"
    /\ sendLog' = [sendLog EXCEPT ![w] = Append(@, coros[w])]
    /\ IF conn[w] \in {"closed", "reclosed"}
       THEN task' = [task EXCEPT ![w] = "exc"]
       ELSE \E r \in {"ok", "blocked"} : task' = [task EXCEPT ![w] = r]
    /\ UNCHANGED <<mode, pc, streamVars, envVars, capVars, interrupts, raised,
                   sockVars, httpThread, wsVars, loopVars, clock, coros>>

\* A send that waited ends: the peer drained ("ok": delivered), or the
\* connection was closed meanwhile (ConnectionClosed).
send_task_resume(w) ==
    /\ pc = "gather" /\ task[w] = "blocked"
    /\ task' = [task EXCEPT ![w] = IF conn[w] \in {"closed", "reclosed"}
                                   THEN "exc" ELSE "ok"]
    /\ UNCHANGED <<mode, pc, streamVars, envVars, capVars, interrupts, raised,
                   sockVars, httpThread, wsVars, loopVars, clock, coros, sendLog>>

GatherRaisesMut(results) == \E w \in DOMAIN results : results[w] = "exc"
\* asyncio.gather(..., return_exceptions=True) of lines 40-43: exceptions of the
\* send tasks are returned as results, never raised to the caller.
GatherRaises(results) == FALSE

BroadcastRemovesMut(results) == {w \in DOMAIN results : results[w] = "exc"}
\* lines 40-43: the members send_notification_to_clients removes from
\* connected_clients after the sends: none.
BroadcastRemoves(results) == {}

\* lines 40-43 and 117-118: every send task is done, the gather returns and
\* the iteration goes on to asyncio.sleep (line 129).
gather_return ==
    /\ mode = "snapshot" /\ pc = "gather"
    /\ \A w \in Conns : task[w] \in {"none", "ok", "exc"}
    /\ connected_clients' = connected_clients \ BroadcastRemoves(task)
    /\ IF GatherRaises(task)
       THEN pc' = "ws_close" /\ raised' = "ConnectionClosed"
       ELSE pc' = "sleep" /\ UNCHANGED raised
    /\ UNCHANGED <<mode, streamVars, envVars, capVars, interrupts, sockVars,
                   httpThread, hs, conn, removeCalls, keyErrors,
                   loopVars, bcastVars>>

\* ------------------------------------- snapshot mode: handle_client

\* lines 21-26: a connection is accepted; its handler adds the websocket to
\* connected_clients and suspends in wait_closed().
handle_client(w) ==
    /\ LoopIdle /\ pc # "ws_wait"
    /\ "ws" \in listening
    /\ hs[w] = "none"
    /\ connected_clients' = connected_clients \cup {w}
    /\ hs' = [hs EXCEPT ![w] = "connected"]
    /\ conn' = [conn EXCEPT ![w] = "open"]
    /\ UNCHANGED <<mode, pc, streamVars, envVars, capVars, interrupts, raised,
                   sockVars, httpThread, removeCalls, keyErrors,
                   loopVars, bcastVars>>

\* The peer closes the connection or the network fails; the event loop sees
\* it.  A connection that is already closed may be signalled again.
connection_closed(w) ==
    /\ LoopIdle
    /\ hs[w] = "connected"
    /\ conn[w] \in {"open", "closed"}
    /\ conn' = [conn EXCEPT ![w] = IF @ = "open" THEN "closed" ELSE "reclosed"]
    /\ UNCHANGED <<mode, pc, streamVars, envVars, capVars, interrupts, raised,
                   sockVars, httpThread, connected_clients, hs, removeCalls,
                   keyErrors, loopVars, bcastVars>>

FinallyRunsMut(cause) == cause = "closed"
\* lines 25-28: try/finally: the removal runs whether wait_closed() returned
\* ("closed") or the handler task was cancelled ("cancelled").
FinallyRuns(cause) == TRUE

\* connected_clients.remove(websocket) of line 28: the set after it, and
\* whether it raised KeyError.
Remove(set, w) == [set |-> set \ {w}, keyError |-> w \notin set]

\* lines 27-29 for a handler whose wait ended with `cause`; the handler ends
\* in state `cause` ("closed" or "cancelled").
HandlerEnds(w, cause) ==
    /\ hs' = [hs EXCEPT ![w] = cause]
    /\ IF FinallyRuns(cause)
       THEN /\ connected_clients' = Remove(connected_clients, w).set
            /\ removeCalls' = [removeCalls EXCEPT ![w] = @ + 1]
            /\ keyErrors' = keyErrors + (IF Remove(connected_clients, w).keyError
                                         THEN 1 ELSE 0)
       ELSE UNCHANGED <<connected_clients, removeCalls, keyErrors>>

\* wait_closed() returns in a handler whose connection is closed.
handle_client_closed(w) ==
    /\ LoopIdle
    /\ hs[w] = "connected"
    /\ conn[w] \in {"closed", "reclosed"}
    /\ HandlerEnds(w, "closed")
    /\ UNCHANGED <<mode, pc, streamVars, envVars, capVars, interrupts, raised,
                   sockVars, httpThread, conn, loopVars, bcastVars>>

\* asyncio.run (line 151) cancels the handler tasks still running when main
\* has ended; their connections are closed with the event loop.
handle_client_cancelled(w) ==
    /\ mode = "snapshot" /\ pc = "done"
    /\ hs[w] = "connected"
    /\ HandlerEnds(w, "cancelled")
    /\ conn' = [conn EXCEPT ![w] = IF @ = "open" THEN "closed" ELSE @]
    /\ UNCHANGED <<mode, pc, streamVars, envVars, capVars, interrupts, raised,
                   sockVars, httpThread, loopVars, bcastVars>>

\* --------------------------------------- snapshot mode: leaving main

\* line 145, exit of the `async with`: the WebSocket server stops listening
\* and closes every open connection.
main_ws_close ==
    /\ mode = "snapshot" /\ pc = "ws_close"
    /\ listening' = listening \ {"ws"}
    /\ conn' = [w \in Conns |-> IF conn[w] = "open" THEN "closed" ELSE conn[w]]
    /\ pc' = "ws_wait"
    /\ UNCHANGED <<mode, streamVars, envVars, capVars, interrupts, raised, everBound,
                   httpThread, connected_clients, hs, removeCalls, keyErrors,
                   loopVars, bcastVars>>

\* ... and waits until the connection handlers have ended.
main_ws_wait ==
    /\ mode = "snapshot" /\ pc = "ws_wait"
    /\ \A w \in Conns : hs[w] # "connected"
    /\ pc' = "done"
    /\ UNCHANGED <<mode, streamVars, envVars, capVars, interrupts, raised, sockVars,
                   snapVars>>

\* A KeyboardInterrupt while main runs (line 151).  It ends webcam_loop where
\* it is: there is no try/finally around lines 92-131, so cap.release() is
\* skipped; the send tasks of a gather in flight are cancelled.  Inside the
\* exit of the `async with`, or before it is entered, it ends main at once.
main_interrupt ==
    /\ mode = "snapshot"
    /\ pc \in {"start_http", "ws_serve", "open0", "open1", "loop", "gather",
               "sleep", "ws_close", "ws_wait"}
    /\ interrupts < MaxInterrupts
    /\ interrupts' = interrupts + 1
    /\ raised' = "KeyboardInterrupt"
    /\ pc' = IF pc \in {"open0", "open1", "loop", "gather", "sleep"}
             THEN "ws_close" ELSE "done"
    /\ task' = [w \in Conns |-> IF task[w] \in {"pending", "blocked"}
                                THEN "cancelled" ELSE task[w]]
    /\ LocalsDropped
    /\ UNCHANGED <<mode, streamVars, envVars, capVars, sockVars, httpThread, wsVars,
                   frameNo, file, triggers, loopExit, clock, coros, sendLog>>

\* The process ends: the main function has returned or raised and no
\* non-daemon thread or task is left.  The operating system closes what is
\* still open (listening sockets, the device).
process_exit ==
    /\ pc = "done"
    /\ \A c \in Clients : ~Streaming(c)
    /\ \A w \in Conns : hs[w] # "connected"
    /\ pc' = "exited"
    /\ listening' = {}
    /\ capOpened' = FALSE
    /\ httpThread' = IF httpThread = "unstarted" THEN httpThread ELSE "ended"
    /\ UNCHANGED <<mode, streamVars, envVars, capIndex, openAttempts, releaseCount,
                   lateRead, opened, interrupts, raised, everBound, wsVars,
                   loopVars, bcastVars>>

\* ------------------------------------------------------- specification

InitEnv ==
    /\ dev \in {d \in [{0, 1} -> BOOLEAN] : d[0] => d[1]}
    /\ portFree \in BOOLEAN

InitCommon ==
    /\ InitEnv
    /\ capIndex = -1 /\ capOpened = FALSE /\ openAttempts = <<>>
    /\ releaseCount = 0 /\ lateRead = FALSE /\ opened = FALSE
    /\ interrupts = 0 /\ raised = "none"
    /\ listening = {} /\ everBound = {}
    /\ hpc = [c \in Clients |-> "idle"]
    /\ wfile = [c \in Clients |-> <<>>]
    /\ iters = [c \in Clients |-> 0]
    /\ encFails = [c \in Clients |-> 0]
    /\ spin = [c \in Clients |-> FALSE]
    /\ httpThread = "unstarted"
    /\ connected_clients = {}
    /\ hs = [w \in Conns |-> "none"]
    /\ conn = [w \in Conns |-> "none"]
    /\ removeCalls = [w \in Conns |-> 0]
    /\ keyErrors = 0
    /\ fullscreen = FALSE /\ frameNo = 0 /\ file = 0 /\ triggers = 0
    /\ loopExit = "none" /\ key = "unset"
    /\ clock = 0 /\ coros = <<>>
    /\ task = [w \in Conns |-> "none"]
    /\ sendLog = [w \in Conns |-> <<>>]

InitStream ==
    /\ mode = "stream" /\ pc = "open0"
    /\ root \in {"ok", "missing", "denied"}
    /\ wsFree = TRUE
    /\ InitCommon

InitSnap ==
    /\ mode = "snapshot" /\ pc = "start_http"
    /\ root = "ok"
    /\ wsFree \in BOOLEAN
    /\ InitCommon

Init == InitStream \/ InitSnap

MainStream ==
    \/ run_server_open0 \/ run_server_open1 \/ run_server_chdir
    \/ run_server_bind \/ run_server_server_close \/ run_server_join
    \/ run_server_release
    \/ process_exit

HandlerStream(c) ==
    \/ static_file(c) \/ stream_video_feed_begin(c)
    \/ stream_video_feed_iteration(c)

NextStream ==
    \/ MainStream
    \/ run_server_serve_error
    \/ run_server_interrupt
    \/ \E c \in Clients : do_GET(c) \/ HandlerStream(c)

MainSnap ==
    \/ main_start_http \/ main_ws_serve \/ webcam_loop_open0 \/ webcam_loop_open1
    \/ webcam_loop_iteration \/ gather_return \/ main_ws_close \/ main_ws_wait
    \/ process_exit

TasksSnap(w) ==
    \/ send_task(w) \/ send_task_resume(w)
    \/ handle_client(w) \/ handle_client_closed(w) \/ handle_client_cancelled(w)

NextSnap ==
    \/ MainSnap
    \/ start_http_server
    \/ main_interrupt
    \/ \E w \in Conns : TasksSnap(w) \/ connection_closed(w)

Next == NextStream \/ NextSnap

SpecStream == InitStream /\ [][NextStream]_vars
SpecSnap == InitSnap /\ [][NextSnap]_vars
Spec == Init /\ [][Next]_vars

\* Threads are scheduled fairly: the main thread and every handler thread that
\* can take a step eventually takes one.  Nothing obliges a peer to disconnect
\* or the operator to interrupt.
FairSpecStream ==
    /\ InitStream /\ [][NextStream]_vars
    /\ WF_vars(MainStream)
    /\ \A c \in Clients : WF_vars(HandlerStream(c))

\* ------------------------------------------------------ reading wfile

\* A complete multipart part starts at index i of token sequence s.
PartAt(s, i) ==
    /\ i + 5 <= Len(s)
    /\ s[i].k = "boundary"
    /\ s[i + 1].k = "Content-Type:image/jpeg"
    /\ s[i + 2].k = "Content-Length"
    /\ s[i + 3].k = "blank"
    /\ s[i + 4].k = "data"
    /\ s[i + 5].k = "crlf"

NumParts(s) == Cardinality({i \in 1..Len(s) : PartAt(s, i)})

\* The handler of c has had no write failure (it streams, or it ended on a
\* failed read).
NoWriteFailure(c) == hpc[c] \in {"read", "done_break"}

\* ------------------------------------------------------------- claims

\* C1: in stream mode, a handler that made N successful reads, all encoded,
\* with no write failure, has emitted exactly N complete parts; and the
\* Content-Length of every payload written is the payload's exact byte length.
C1_PartsAndContentLength ==
    \A c \in Clients :
       /\ (NoWriteFailure(c) /\ encFails[c] = 0) => NumParts(wfile[c]) = iters[c]
       /\ \A i \in 1..Len(wfile[c]) :
             wfile[c][i].k = "data" =>
                /\ i >= 3
                /\ wfile[c][i - 2].k = "Content-Length"
                /\ ParseInt(wfile[c][i - 2].v) = wfile[c][i].v[1]

\* C1 witness: a handler still streaming after two reads, both encoded (9 and
\* 10 bytes), with two complete parts written.
C1_Witness ==
    \E c \in Clients :
       /\ hpc[c] = "read" /\ iters[c] = 2 /\ encFails[c] = 0
       /\ NumParts(wfile[c]) = 2
       /\ \E i, j \in 1..Len(wfile[c]) :
             /\ wfile[c][i] = Tok("data", <<9>>)
             /\ wfile[c][j] = Tok("data", <<10>>)

\* C2: in stream mode, with K encode failures among N successful reads and no
\* write failure exactly N-K parts were emitted; and the step of an encode
\* failure writes nothing and leaves the handler in its loop, at the next read.
C2_EncodeFailureSkipsFrame ==
    /\ [](\A c \in Clients :
            NoWriteFailure(c) => NumParts(wfile[c]) = iters[c] - encFails[c])
    /\ [][\A c \in Clients :
            encFails'[c] # encFails[c] => hpc'[c] = "read" /\ wfile'[c] = wfile[c]]_vars

\* C2 witness: a handler still streaming after two reads of which one failed
\* to encode, with one part written.
C2_Witness ==
    \E c \in Clients :
       /\ hpc[c] = "read" /\ iters[c] = 2 /\ encFails[c] = 1
       /\ NumParts(wfile[c]) = 1

\* Handlers of handle_client that have ended (their finally block has run).
Ended(w) == hs[w] \in {"closed", "cancelled"}
\* M: connections whose handler was started; D: handlers that have ended.
Connects == Cardinality({w \in Conns : hs[w] # "none"})
Disconnects == Cardinality({w \in Conns : Ended(w)})

\* C3: in snapshot mode, after M connects and D completed disconnects,
\* connected_clients has exactly M-D members and is the set of connections
\* whose handler is in the Connected state.
C3_ClientSetTracksHandlers ==
    /\ connected_clients = {w \in Conns : hs[w] = "connected"}
    /\ Cardinality(connected_clients) = Connects - Disconnects

\* C3 witness: two connects, one completed disconnect, one member left.
C3_Witness ==
    /\ Connects = 2 /\ Disconnects = 1
    /\ Cardinality(connected_clients) = 1

\* C4: every handler removes its own connection exactly once, whatever ended
\* it (close, repeated close signal, cancellation); remove() never raises, and
\* an ended handler leaves no entry behind.
C4_RemovedExactlyOnce ==
    /\ keyErrors = 0
    /\ \A w \in Conns :
          /\ removeCalls[w] = (IF Ended(w) THEN 1 ELSE 0)
          /\ Ended(w) => w \notin connected_clients

\* C4 witness: one handler ended after its connection was signalled closed
\* twice, the other ended by cancellation; each removed itself once.
C4_Witness ==
    /\ hs["w1"] = "closed" /\ conn["w1"] = "reclosed" /\ removeCalls["w1"] = 1
    /\ hs["w2"] = "cancelled" /\ removeCalls["w2"] = 1
    /\ connected_clients = {}

\* C5: a broadcast in which per-client sends fail never raises into the
\* capture loop; the broadcast's own steps leave connected_clients as it is;
\* and when it returns it has attempted every enumerated member and the loop
\* goes on to its sleep.
C5_BroadcastSurvivesSendFailures ==
    /\ [](raised # "ConnectionClosed")
    /\ [][(pc = "gather" /\ interrupts' = interrupts /\ (task' # task \/ pc' # pc))
             => connected_clients' = connected_clients]_vars
    /\ [][(pc = "gather" /\ pc' # "gather" /\ interrupts' = interrupts)
             => /\ pc' = "sleep"
                /\ raised' = raised
                /\ \A w \in DOMAIN coros : Len(sendLog[w]) = 1]_vars

\* C5 witness: a broadcast to two members has returned; the send to w1 failed,
\* the send to w2 was delivered, nothing was raised and both are still members.
C5_Witness ==
    /\ pc = "sleep" /\ raised = "none"
    /\ task["w1"] = "exc" /\ task["w2"] = "ok"
    /\ connected_clients = {"w1", "w2"}

\* C6: a broadcast enumerates exactly the members of connected_clients at the
\* call and makes exactly one send per enumerated member, all with the same
\* message; with an empty set it takes no clock reading, builds no message,
\* makes no send and the loop goes straight on.
C6_OneSendPerMember ==
    /\ [](/\ \A w \in Conns :
               /\ Len(sendLog[w]) <= 1
               /\ Len(sendLog[w]) = 1 => (w \in DOMAIN coros /\ sendLog[w][1] = coros[w])
          /\ \A v, w \in DOMAIN coros : coros[v] = coros[w]
          /\ pc = "sleep" => \A w \in DOMAIN coros : Len(sendLog[w]) = 1)
    /\ [][triggers' # triggers =>
             IF connected_clients = {}
             THEN pc' = "sleep" /\ UNCHANGED <<clock, coros, task, sendLog>>
             ELSE /\ pc' = "gather"
                  /\ DOMAIN coros' = connected_clients
                  /\ clock' = clock + 1
                  /\ \A w \in Conns : sendLog'[w] = <<>>]_vars

\* C6 witness: a broadcast to both connections has returned after one send each.
C6_Witness ==
    /\ pc = "sleep"
    /\ DOMAIN coros = {"w1", "w2"}
    /\ \A w \in Conns : Len(sendLog[w]) = 1 /\ sendLog[w][1] = Message(clock - 1)

\* C7 (as claimed): whenever the process has left its main function after a
\* successful open, cap.release() has been called exactly once.
C7_ReleasedExactlyOnce ==
    (pc \in {"done", "exited"} /\ opened) => releaseCount = 1

\* C8 (as claimed): no server socket is bound before the device-open check
\* has passed; in particular none is ever bound when no device opens.
C8_NoListenerBeforeOpen == everBound # {} => opened

\* The process has unwound: device released, no connection open, no listener.
Unwound ==
    /\ ~capOpened
    /\ listening = {}
    /\ \A c \in Clients : ~Streaming(c)

\* C9 (as claimed): after an interrupt the process eventually has unwound.
C9_InterruptUnwinds == (interrupts > 0) ~> Unwound

\* C10: in stream mode, a handler ending on a write failure changes nothing
\* but itself: the capture is neither released nor closed, no other handler's
\* position or output changes, the ended handler writes nothing more, and any
\* handler still active finds the capture open.
C10_WriteFailureIsLocal ==
    /\ [](\A c \in Clients : Streaming(c) => (capOpened /\ releaseCount = 0))
    /\ [][\A c \in Clients :
            (hpc[c] = "read" /\ hpc'[c] = "done_except") =>
               /\ releaseCount' = releaseCount /\ capOpened' = capOpened
               /\ \A d \in Clients \ {c} : hpc'[d] = hpc[d] /\ wfile'[d] = wfile[d]]_vars
    /\ [][\A c \in Clients :
            hpc[c] = "done_except" =>
               (hpc'[c] = "done_except" /\ wfile'[c] = wfile[c])]_vars

\* C10 witness: c1 ended on a write failure having written no complete part,
\* c2 still streams from the open capture and has written parts.
C10_Witness ==
    /\ hpc["c1"] = "done_except" /\ NumParts(wfile["c1"]) = 0
    /\ hpc["c2"] = "read" /\ NumParts(wfile["c2"]) = 2
    /\ capOpened /\ releaseCount = 0

\* C11: a failed capture read ends only the loop that hit it and is not
\* retried.  Stream mode: the handler ends ("done_break") with the capture left
\* as it is and every other handler untouched, and it never reads or writes
\* again.  Snapshot mode: the failed read takes the loop to its exit with the
\* device released, and from then on no frame is read, no snapshot is written
\* and no broadcast is started.
C11_ReadFailureEndsOwnLoop ==
    /\ [][\A c \in Clients :
            (hpc[c] = "read" /\ hpc'[c] = "done_break") =>
               /\ releaseCount' = releaseCount /\ capOpened' = capOpened
               /\ wfile' = wfile
               /\ \A d \in Clients \ {c} : hpc'[d] = hpc[d]]_vars
    /\ [][\A c \in Clients :
            hpc[c] = "done_break" =>
               (hpc'[c] = "done_break" /\ wfile'[c] = wfile[c]
                  /\ iters'[c] = iters[c] /\ spin'[c] = spin[c])]_vars
    /\ [][(loopExit = "none" /\ loopExit' = "read_failed") =>
             /\ pc' = "ws_close"
             /\ releaseCount' = releaseCount + 1 /\ ~capOpened'
             /\ UNCHANGED <<frameNo, file, triggers, bcastVars>>]_vars
    /\ [][loopExit = "read_failed" =>
             /\ pc' \in {"ws_close", "ws_wait", "done", "exited"}
             /\ releaseCount' = 1 /\ ~capOpened'
             /\ UNCHANGED <<loopExit, frameNo, file, triggers, clock, coros, sendLog>>]_vars

\* C11 witness: the snapshot loop took one snapshot, then a read failed; the
\* process has ended with the device released once and that snapshot in place.
C11_Witness ==
    /\ mode = "snapshot" /\ loopExit = "read_failed" /\ pc = "exited"
    /\ triggers = 1 /\ file = 1 /\ releaseCount = 1

\* C12 (as claimed): the second capture trigger leaves one file at the
\* configured path holding the frame read in that iteration; the file changes
\* on no other step; the broadcast of the trigger enumerates the members of
\* connected_clients at the trigger and has sent to each when it returns.
C12_SecondTriggerOverwrites ==
    /\ [][(triggers = 1 /\ triggers' = 2) =>
             /\ file' # 0 /\ file' = frameNo'
             /\ connected_clients # {} => DOMAIN coros' = connected_clients]_vars
    /\ [][triggers' = triggers => file' = file]_vars
    /\ [][(triggers = 2 /\ pc = "gather" /\ pc' = "sleep") =>
             \A w \in DOMAIN coros : Len(sendLog[w]) = 1]_vars

\* Some cap.read() has been made (by a stream handler or the snapshot loop).
ReadMade ==
    \/ \E c \in Clients : hpc[c] \in {"read", "done_break", "done_except"}
    \/ frameNo > 0 \/ loopExit # "none" \/ pc \in {"loop", "gather", "sleep"}

\* C13: in both scripts the device is opened by trying index 0, then index 1
\* only if index 0 did not open; at most two attempts; the capture read from
\* is the first that opened; when neither opens no read is ever made.
C13_OpenOrder ==
    /\ openAttempts \in {<<>>, <<0>>, <<0, 1>>}
    /\ Len(openAttempts) = 2 => ~dev[0]
    /\ opened => (capIndex = (IF dev[0] THEN 0 ELSE 1) /\ dev[capIndex])
    /\ ReadMade => opened
    /\ (~dev[0] /\ ~dev[1]) => ~ReadMade

\* C13 witness: index 0 failed, index 1 opened, and a stream handler has read
\* frames from the capture bound to index 1.
C13_Witness ==
    /\ openAttempts = <<0, 1>> /\ capIndex = 1 /\ capOpened
    /\ \E c \in Clients : hpc[c] = "read" /\ iters[c] = 2

\* The kinds of the tokens of one part, in the order the client must see them.
PartKinds == << "boundary", "Content-Type:image/jpeg", "Content-Length",
                "blank", "data", "crlf" >>

\* s is the response head once, then parts token by token in order, the last
\* part possibly cut short.
InOrder(s) ==
    /\ Len(s) >= Len(ResponseHead)
    /\ SubSeq(s, 1, Len(ResponseHead)) = ResponseHead
    /\ \A i \in (Len(ResponseHead) + 1)..Len(s) :
          s[i].k = PartKinds[((i - Len(ResponseHead) - 1) % Len(PartKinds)) + 1]

\* C14: what a stream handler has written is the status line and the two
\* response headers once, before any part, then the parts one after another,
\* each as boundary, part headers and blank line, JPEG bytes, CRLF; a part's
\* headers never precede its boundary and parts never interleave.
C14_WriteOrder ==
    \A c \in Clients :
       hpc[c] \in {"read", "done_break", "done_except"} => InOrder(wfile[c])

\* C14 witness: c1 has written the head and two whole parts and still
\* streams; c2 ended on a write failure after the head, one whole part, and
\* the boundary and headers of a second.
C14_Witness ==
    /\ hpc["c1"] = "read" /\ Len(wfile["c1"]) = Len(ResponseHead) + 12
    /\ hpc["c2"] = "done_except" /\ Len(wfile["c2"]) = Len(ResponseHead) + 10

\* C15 (as claimed): whenever a subscriber is delivered a new_image_ready
\* message, the file at the configured path holds the frame of the trigger
\* that produced the message.  Deliveries happen while the loop is suspended
\* in the gather of that trigger, so that frame is the one read last.
C15_FileWrittenBeforeNotify ==
    \A w \in Conns :
       (pc = "gather" /\ task[w] = "ok") => (file # 0 /\ file = frameNo)

\* C16 (as claimed): the capture loop never waits for a subscriber: once the
\* sends of a trigger's broadcast have been started, the loop can go on to its
\* yield and its next read by its own step, whatever the subscribers do.
C16_LoopNeverWaitsForSubscriber ==
    (pc = "gather" /\ \A w \in Conns : task[w] # "pending")
       => ENABLED gather_return

\* A step of the capture loop in which a frame was read and a key polled.
Polled ==
    /\ pc \in {"loop", "sleep"}
    /\ <<frameNo, key, fullscreen, triggers>>' # <<frameNo, key, fullscreen, triggers>>

\* The iteration had no effect outside the loop, and the loop goes on.
NoExternalEffect ==
    /\ pc' = "sleep"
    /\ UNCHANGED <<file, triggers, connected_clients, clock, coros, task, sendLog,
                   loopExit, releaseCount, capOpened>>

\* C17: one iteration of the capture loop handles at most one trigger, and
\* only the capture key has an external effect: 'f' flips the fullscreen flag
\* and nothing else, any other key or no key changes nothing; in both cases
\* the file, connected_clients and the messages sent stay as they are and the
\* loop continues.
C17_OnlyCaptureHasEffect ==
    [][(Polled /\ pc' \in {"sleep", "gather"}) =>
          /\ key' = "f" => (fullscreen' = ~fullscreen /\ NoExternalEffect)
          /\ key' \in {"x", "none"} => (fullscreen' = fullscreen /\ NoExternalEffect)
          /\ triggers' # triggers =>
                (key' = "s" /\ triggers' = triggers + 1
                   /\ UNCHANGED <<fullscreen, loopExit>>)
          /\ fullscreen' # fullscreen => key' = "f"
          /\ pc' = "gather" => key' = "s"]_vars

\* C17 witness: after a capture that was saved and sent to a subscriber, 'f'
\* was pressed: the flag is set, the file, the set and the send log are as the
\* capture left them, and the loop is at its yield.
C17_Witness ==
    /\ pc = "sleep" /\ key = "f" /\ fullscreen
    /\ triggers = 1 /\ file = 2
    /\ connected_clients = {"w1"} /\ Len(sendLog["w1"]) = 1

\* C18: in stream mode with the static root directory missing, the run ends
\* at the chdir: the opened device is released there, no server socket is
\* ever bound and no request is ever handled.
C18_StaticRootMissingIsFatal ==
    /\ [](root = "missing" =>
             /\ everBound = {} /\ listening = {}
             /\ \A c \in Clients : hpc[c] = "idle"
             /\ pc \in {"open0", "open1", "chdir", "done", "exited"}
             /\ (pc \in {"done", "exited"} /\ opened /\ raised = "none")
                   => (releaseCount = 1 /\ ~capOpened))
    /\ [][(root = "missing" /\ pc = "chdir" /\ interrupts' = interrupts) =>
             (pc' = "done" /\ releaseCount' = releaseCount + 1 /\ ~capOpened')]_vars

\* C18 witness: the device opened at index 1, the root was missing, and the
\* process has ended with one release and no socket ever bound.
C18_Witness ==
    /\ mode = "stream" /\ root = "missing" /\ pc = "exited"
    /\ openAttempts = <<0, 1>> /\ opened /\ releaseCount = 1 /\ raised = "none"
    /\ everBound = {}

\* C19: in stream mode no handler reads from the capture after it has been
\* released: a release happens only while no handler thread is active, and no
\* handler is active once the capture has been released.
C19_NoReadAfterRelease ==
    /\ [](~lateRead)
    /\ [](releaseCount > 0 => \A c \in Clients : ~Streaming(c))
    /\ [][releaseCount' # releaseCount => \A c \in Clients : ~Streaming(c)]_vars

\* C19 witness: two handlers streamed; after the interrupt both ended (one on
\* a failed write, one on a failed read), then the capture was released once,
\* and no read came after the release.
C19_Witness ==
    /\ mode = "stream" /\ pc = "done" /\ interrupts = 1 /\ releaseCount = 1
    /\ hpc["c1"] = "done_except" /\ iters["c1"] = 2
    /\ hpc["c2"] = "done_break" /\ iters["c2"] = 2
    /\ ~lateRead

\* C20: the recipients of a broadcast are the members of connected_clients at
\* the call, fixed in the one step that enumerates the set (which does not
\* change it); while the sends are in flight the recipients stay the same
\* whoever connects or disconnects; no send is ever made to a connection that
\* is not a recipient, and every recipient has been sent to when the gather
\* returns, member or not by then.
C20_RecipientsFixedAtCall ==
    /\ [][triggers' # triggers =>
             /\ connected_clients' = connected_clients
             /\ connected_clients # {} =>
                   /\ DOMAIN coros' = connected_clients
                   /\ {w \in Conns : task'[w] = "pending"} = connected_clients]_vars
    /\ [][pc = "gather" => coros' = coros]_vars
    /\ [](\A w \in Conns \ DOMAIN coros : sendLog[w] = <<>> /\ task[w] = "none")
    /\ [][(pc = "gather" /\ pc' = "sleep") =>
             \A w \in DOMAIN coros : Len(sendLog[w]) = 1]_vars

\* C20 witness: a broadcast to w1 alone is in flight; meanwhile w1 has
\* disconnected (its send failed) and w2 has connected: w2 is a member now
\* but gets no send.
C20_Witness ==
    /\ pc = "gather" /\ DOMAIN coros = {"w1"}
    /\ connected_clients = {"w2"}
    /\ task["w1"] = "exc" /\ task["w2"] = "none" /\ sendLog["w2"] = <<>>

====
